---- MODULE Spec2Model ----
(***************************************************************************)
(* A model of jmp (src/index.js): the Message codec (constructor, _encode, *)
(* _decode, Message._decode) and the JMP Socket that wraps 'message'       *)
(* listeners of a ZMQ socket (an EventEmitter).                            *)
(*                                                                         *)
(* JavaScript values are tagged records [t, v]; a text is a sequence of    *)
(* tokens; a frame is a string or a Buffer holding a text.  An operator    *)
(* that can throw returns Ret(value) or Throw(error).                      *)
(***************************************************************************)
EXTENDS Integers, Sequences, FiniteSets, TLC

\* ------------------------------------------------------------------ bounds
MaxIdents == 1
MaxBuffers == 1
\* listeners registered with the socket at one time, all events together
MaxListeners == 2
\* calls of respond in one run
MaxResponds == 2

\* ------------------------------------------------------- JavaScript values
Undefined == [t |-> "undefined", v |-> <<>>]
Null == [t |-> "null", v |-> <<>>]
Obj(f) == [t |-> "object", v |-> f]
Arr(s) == [t |-> "array", v |-> s]

\* ToBoolean on the values of the model: objects and arrays are truthy.
Truthy(x) == x.t \in {"object", "array"}

\* a || b
Or(a, b) == IF Truthy(a) THEN a ELSE b

\* a && a[field]
AndGet(a, field) == IF Truthy(a) THEN a.v[field] ELSE a

Ret(v) == [kind |-> "return", value |-> v]
Throw(e) == [kind |-> "throw", error |-> e]

\* The errors the codec can meet, with the text of their message.
ToStringFailed == [name |-> "Error", message |-> "toString failed"]
ToStringOfUndefined ==
    [name |-> "TypeError", message |-> "Cannot read property 'toString' of undefined"]
NotStringOrBuffer == [name |-> "TypeError", message |-> "Not a string or buffer"]
JSONSyntaxError == [name |-> "SyntaxError", message |-> "Unexpected token"]

\* the test of the catch clause inverted
indexOfToStringIsNotMinus1(message) ==
    message \in {"toString failed", "Cannot read property 'toString' of undefined"}

\* err.message.indexOf("toString") === -1
indexOfToStringIsMinus1(message) ==
    message \notin {"toString failed", "Cannot read property 'toString' of undefined"}

\* ------------------------------------------------------------------ frames
Str(data) == [type |-> "string", big |-> FALSE, data |-> data]
Buf(data) == [type |-> "buffer", big |-> FALSE, data |-> data]
\* A Buffer longer than the maximum string length of V8.
BigBuf == [type |-> "buffer", big |-> TRUE, data |-> <<"BIG">>]
\* messageFrames[k] for k beyond the end
UndefinedFrame == [type |-> "undefined", big |-> FALSE, data |-> <<>>]

DELIMITER == <<"<IDS|MSG>">>

\* frame.toString()
toString(frame) ==
    IF frame.type = "undefined" THEN Throw(ToStringOfUndefined)
    ELSE IF frame.big THEN Throw(ToStringFailed)
    ELSE Ret(frame.data)

\* messageFrames[n], n a JavaScript index (from 0)
At(messageFrames, n) ==
    IF n + 1 \in 1..Len(messageFrames) THEN messageFrames[n + 1] ELSE UndefinedFrame

\* -------------------------------------------------------------------- JSON
\* The order in which the members of an object are written.
KeyOrder == <<"msg_id", "username", "session", "msg_type", "version", "x", "y">>

Punct == {"{", "}", ":", ","}
\* A member of an object holds a token that stands for a string, or this one
\* that stands for the value undefined (header.username of a response to a
\* request without username).
UndefinedValue == "undefined"
IsStringToken(tok) == tok \notin Punct /\ tok # "null"

RECURSIVE Members(_, _, _)
Members(f, k, first) ==
    IF k > Len(KeyOrder) THEN <<>>
    ELSE IF KeyOrder[k] \in DOMAIN f /\ f[KeyOrder[k]] # UndefinedValue
         THEN (IF first THEN <<>> ELSE <<",">>)
              \o <<KeyOrder[k], ":", f[KeyOrder[k]]>>
              \o Members(f, k + 1, FALSE)
         ELSE Members(f, k + 1, first)

\* JSON.stringify(x), x null or an object of strings: a member that holds
\* undefined is left out
JSON_stringify(x) ==
    IF x.t = "null" THEN <<"null">>
    ELSE <<"{">> \o Members(x.v, 1, TRUE) \o <<"}">>

RECURSIVE ParseMembers(_, _, _)
\* text[p] starts a member; acc holds the members read so far
ParseMembers(text, p, acc) ==
    IF p + 3 > Len(text) THEN Throw(JSONSyntaxError)
    ELSE IF ~(IsStringToken(text[p]) /\ text[p + 1] = ":" /\ IsStringToken(text[p + 2]))
    THEN Throw(JSONSyntaxError)
    ELSE LET acc2 == [k \in DOMAIN acc \cup {text[p]} |->
                        IF k = text[p] THEN text[p + 2] ELSE acc[k]]
         IN  IF text[p + 3] = "}"
             THEN (IF p + 3 = Len(text) THEN Ret(Obj(acc2)) ELSE Throw(JSONSyntaxError))
             ELSE IF text[p + 3] = ","
             THEN ParseMembers(text, p + 4, acc2)
             ELSE Throw(JSONSyntaxError)

\* JSON.parse(text)
JSON_parse(text) ==
    IF text = <<"null">> THEN Ret(Null)
    ELSE IF text = <<"{", "}">> THEN Ret(Obj(<<>>))
    ELSE IF Len(text) >= 1 /\ text[1] = "{" THEN ParseMembers(text, 2, <<>>)
    ELSE Throw(JSONSyntaxError)

\* -------------------------------------------------------------------- HMAC
RECURSIVE Concat(_)
Concat(chunks) ==
    IF chunks = <<>> THEN <<>> ELSE Head(chunks) \o Concat(Tail(chunks))

\* crypto.createHmac(scheme, key), update(chunk)..., digest("hex"): a keyed
\* hash of the bytes fed to it, free of collisions.
HmacHex(scheme, key, chunks) == <<"hmac", scheme, key>> \o Concat(chunks)

\* ----------------------------------------------------------------- Message
\* a constructor that takes the properties as given, with no default
MessageAsGiven(properties) ==
    [idents        |-> AndGet(properties, "idents"),
     header        |-> AndGet(properties, "header"),
     parent_header |-> AndGet(properties, "parent_header"),
     metadata      |-> AndGet(properties, "metadata"),
     content       |-> AndGet(properties, "content"),
     buffers       |-> AndGet(properties, "buffers")]

\* function Message(properties)
Message(properties) ==
    [idents        |-> Or(AndGet(properties, "idents"), Arr(<<>>)),
     header        |-> Or(AndGet(properties, "header"), Obj(<<>>)),
     parent_header |-> Or(AndGet(properties, "parent_header"), Obj(<<>>)),
     metadata      |-> Or(AndGet(properties, "metadata"), Obj(<<>>)),
     content       |-> Or(AndGet(properties, "content"), Obj(<<>>)),
     buffers       |-> Or(AndGet(properties, "buffers"), Arr(<<>>))]

\* scheme || "sha256"; the empty string stands for an omitted argument too
DefaultScheme(scheme) == IF scheme = "" THEN "sha256" ELSE scheme

\* _encode that writes content before metadata
Message_encodeContentFirst(this, scheme0, key0) ==
    LET scheme == DefaultScheme(scheme0)
        key == key0
        header == JSON_stringify(this.header)
        parent_header == JSON_stringify(this.parent_header)
        metadata == JSON_stringify(this.metadata)
        content == JSON_stringify(this.content)
        signature == IF key # ""
                     THEN HmacHex(scheme, key, <<header, parent_header, content, metadata>>)
                     ELSE <<>>
    IN  this.idents.v
        \o <<Str(DELIMITER), Str(signature), Str(header), Str(parent_header),
             Str(content), Str(metadata)>>
        \o this.buffers.v

\* _encode that leaves the buffers out
Message_encodeNoBuffers(this, scheme0, key0) ==
    LET scheme == DefaultScheme(scheme0)
        key == key0
        header == JSON_stringify(this.header)
        parent_header == JSON_stringify(this.parent_header)
        metadata == JSON_stringify(this.metadata)
        content == JSON_stringify(this.content)
        signature == IF key # ""
                     THEN HmacHex(scheme, key, <<header, parent_header, metadata, content>>)
                     ELSE <<>>
    IN  this.idents.v
        \o <<Str(DELIMITER), Str(signature), Str(header), Str(parent_header),
             Str(metadata), Str(content)>>

\* Message.prototype._encode
Message_encode(this, scheme0, key0) ==
    LET scheme == DefaultScheme(scheme0)
        key == key0
        header == JSON_stringify(this.header)
        parent_header == JSON_stringify(this.parent_header)
        metadata == JSON_stringify(this.metadata)
        content == JSON_stringify(this.content)
        signature == IF key # ""
                     THEN HmacHex(scheme, key, <<header, parent_header, metadata, content>>)
                     ELSE <<>>
    IN  this.idents.v
        \o <<Str(DELIMITER), Str(signature), Str(header), Str(parent_header),
             Str(metadata), Str(content)>>
        \o this.buffers.v

\* a scan that stops at the last frame holding the delimiter
ScanIdentsToLast(messageFrames, i) ==
    LET hits == {k \in 1..Len(messageFrames) :
                    ~messageFrames[k].big /\ messageFrames[k].data = DELIMITER}
    IN  IF hits = {} THEN Ret(Len(messageFrames))
        ELSE Ret((CHOOSE k \in hits : \A j \in hits : j <= k) - 1)

\* _encode that appends the frames to this.idents in place
AfterEncodeInPlace(this, scheme0, key0) ==
    [this EXCEPT !.idents = Arr(Message_encode(this, scheme0, key0))]

\* the Message `this` after this._encode(scheme, key): _encode reads the
\* fields, assigns to none, and concat makes new arrays
AfterEncode(this, scheme0, key0) == this

RECURSIVE ScanIdents(_, _)
\* the for loop of _decode: the index where it stops, or what toString throws
ScanIdents(messageFrames, i) ==
    IF i >= Len(messageFrames) THEN Ret(i)
    ELSE LET s == toString(At(messageFrames, i))
         IN  IF s.kind = "throw" THEN s
             ELSE IF s.value = DELIMITER THEN Ret(i)
             ELSE ScanIdents(messageFrames, i + 1)

\* an HMAC over every frame after the signature, buffers included
ExpectedSignatureToEnd(messageFrames, i, scheme, key) ==
    IF Len(messageFrames) < i + 6 THEN Throw(NotStringOrBuffer)
    ELSE Ret(HmacHex(scheme, key,
                     [k \in 1..(Len(messageFrames) - i - 2) |->
                        messageFrames[i + 2 + k].data]))

\* hmac.update(frame)... hmac.digest("hex") over messageFrames[i+2 .. i+5]
ExpectedSignature(messageFrames, i, scheme, key) ==
    LET fs == [k \in 1..4 |-> At(messageFrames, i + 1 + k)]
    IN  IF \E k \in 1..4 : fs[k].type = "undefined"
        THEN Throw(NotStringOrBuffer)
        ELSE Ret(HmacHex(scheme, key, [k \in 1..4 |-> fs[k].data]))

\* function toJSON(value) of _decode
toJSON(value) ==
    LET s == toString(value)
    IN  IF s.kind = "throw" THEN s ELSE JSON_parse(s.value)

\* the first outcome of the sequence that throws, or Ret(TRUE)
FirstThrow(outcomes) ==
    IF \E k \in 1..Len(outcomes) : outcomes[k].kind = "throw"
    THEN outcomes[CHOOSE k \in 1..Len(outcomes) :
                    /\ outcomes[k].kind = "throw"
                    /\ \A j \in 1..(k - 1) : outcomes[j].kind # "throw"]
    ELSE Ret(TRUE)

\* content read from the frame of metadata and metadata from that of content
BuildMessageSwapped(messageFrames, i) ==
    LET header == toJSON(At(messageFrames, i + 2))
        parent_header == toJSON(At(messageFrames, i + 3))
        content == toJSON(At(messageFrames, i + 4))
        metadata == toJSON(At(messageFrames, i + 5))
        thrown == FirstThrow(<<header, parent_header, content, metadata>>)
    IN  IF thrown.kind = "throw" THEN thrown
        ELSE Ret(Message(Obj(
                [idents        |-> Arr(SubSeq(messageFrames, 1, i)),
                 header        |-> header.value,
                 parent_header |-> parent_header.value,
                 content       |-> content.value,
                 metadata      |-> metadata.value,
                 buffers       |-> Arr(SubSeq(messageFrames, i + 7, Len(messageFrames)))])))

\* new Message({idents, header, parent_header, content, metadata, buffers}) of
\* _decode: the properties are evaluated in the order they are written
BuildMessage(messageFrames, i) ==
    LET header == toJSON(At(messageFrames, i + 2))
        parent_header == toJSON(At(messageFrames, i + 3))
        content == toJSON(At(messageFrames, i + 5))
        metadata == toJSON(At(messageFrames, i + 4))
        thrown == FirstThrow(<<header, parent_header, content, metadata>>)
    IN  IF thrown.kind = "throw" THEN thrown
        ELSE Ret(Message(Obj(
                [idents        |-> Arr(SubSeq(messageFrames, 1, i)),
                 header        |-> header.value,
                 parent_header |-> parent_header.value,
                 content       |-> content.value,
                 metadata      |-> metadata.value,
                 buffers       |-> Arr(SubSeq(messageFrames, i + 7, Len(messageFrames)))])))

\* no signature is checked
CheckSignatureSkipped(messageFrames, i, scheme, key) == Ret(TRUE)

\* the signature is checked with an empty key too
CheckSignatureAlways(messageFrames, i, scheme, key) ==
    LET obtainedSignature == toString(At(messageFrames, i + 1))
    IN  IF obtainedSignature.kind = "throw" THEN obtainedSignature
        ELSE LET expectedSignature == ExpectedSignature(messageFrames, i, scheme, key)
             IN  IF expectedSignature.kind = "throw" THEN expectedSignature
                 ELSE Ret(expectedSignature.value = obtainedSignature.value)

\* the signature frame is converted to text before the key is looked at
CheckSignatureReadsFrame(messageFrames, i, scheme, key) ==
    LET obtainedSignature == toString(At(messageFrames, i + 1))
    IN  IF obtainedSignature.kind = "throw" THEN obtainedSignature
        ELSE IF key = "" THEN Ret(TRUE)
        ELSE LET expectedSignature == ExpectedSignature(messageFrames, i, scheme, key)
             IN  IF expectedSignature.kind = "throw" THEN expectedSignature
                 ELSE Ret(expectedSignature.value = obtainedSignature.value)

\* the signature check of _decode: Ret(TRUE) when the signature is accepted
CheckSignature(messageFrames, i, scheme, key) ==
    IF key = "" THEN Ret(TRUE)
    ELSE LET obtainedSignature == toString(At(messageFrames, i + 1))
         IN  IF obtainedSignature.kind = "throw" THEN obtainedSignature
             ELSE LET expectedSignature == ExpectedSignature(messageFrames, i, scheme, key)
                  IN  IF expectedSignature.kind = "throw" THEN expectedSignature
                      ELSE Ret(expectedSignature.value = obtainedSignature.value)

\* _decode that parses the four segments before it checks the signature
_decodeParsesFirst(messageFrames, scheme0, key0) ==
    LET scheme == DefaultScheme(scheme0)
        key == key0
        scan == ScanIdents(messageFrames, 0)
    IN  IF scan.kind = "throw" THEN scan
        ELSE LET i == scan.value
             IN  IF Len(messageFrames) - i < 5 THEN Ret(Null)
                 ELSE LET d == toString(At(messageFrames, i))
                      IN  IF d.kind = "throw" THEN d
                          ELSE IF d.value # DELIMITER THEN Ret(Null)
                          ELSE IF BuildMessage(messageFrames, i).kind = "throw"
                          THEN BuildMessage(messageFrames, i)
                          ELSE LET ok == CheckSignature(messageFrames, i, scheme, key)
                               IN  IF ok.kind = "throw" THEN ok
                                   ELSE IF ~ok.value THEN Ret(Null)
                                   ELSE BuildMessage(messageFrames, i)

\* function _decode(messageFrames, scheme, key)
_decode(messageFrames, scheme0, key0) ==
    LET scheme == DefaultScheme(scheme0)
        key == key0
        scan == ScanIdents(messageFrames, 0)
    IN  IF scan.kind = "throw" THEN scan
        ELSE LET i == scan.value
             IN  IF Len(messageFrames) - i < 5 THEN Ret(Null)
                 ELSE LET d == toString(At(messageFrames, i))
                      IN  IF d.kind = "throw" THEN d
                          ELSE IF d.value # DELIMITER THEN Ret(Null)
                          ELSE LET ok == CheckSignature(messageFrames, i, scheme, key)
                               IN  IF ok.kind = "throw" THEN ok
                                   ELSE IF ~ok.value THEN Ret(Null)
                                   ELSE BuildMessage(messageFrames, i)

\* Message._decode without its try and catch
Message_decodeNoCatch(messageFrames, scheme, key) == _decode(messageFrames, scheme, key)

\* the catch clause of Message._decode, r the outcome of its try block
Catch(r) ==
    IF r.kind = "throw"
    THEN (IF indexOfToStringIsMinus1(r.error.message) THEN r ELSE Ret(Null))
    ELSE r

\* Message._decode
Message_decode(messageFrames, scheme, key) ==
    Catch(_decode(messageFrames, scheme, key))

\* ------------------------------------------------------------- codec inputs
\* the (scheme, key) pairs the codec is run with
SchemeKeys == {<<"", "">>, <<"", "K1">>, <<"sha1", "K1">>, <<"", "K2">>}

SeqsUpTo(S, n) == UNION {[1..k -> S] : k \in 0..n}

IdentFrames == {Buf(<<"id">>), Str(DELIMITER), BigBuf}
BufferFrames == {Buf(<<"b1">>), Str(DELIMITER)}

H1 == Obj([msg_id |-> "1", msg_type |-> "req"])
H2 == Obj([msg_id |-> "0"])
M1 == Obj([x |-> "m"])
C1v == Obj([x |-> "c"])

\* what the caller gives for header, parent_header, metadata and content
Payloads ==
    {[header |-> Undefined, parent_header |-> Undefined,
      metadata |-> Undefined, content |-> Undefined],
     [header |-> H1, parent_header |-> Undefined,
      metadata |-> Undefined, content |-> Undefined],
     [header |-> H1, parent_header |-> H2, metadata |-> M1, content |-> C1v],
     [header |-> Null, parent_header |-> Obj(<<>>),
      metadata |-> Undefined, content |-> Obj([y |-> "c"])],
     [header |-> Obj([msg_id |-> "2", username |-> UndefinedValue]),
      parent_header |-> H1, metadata |-> Undefined, content |-> Undefined]}

\* the arguments of new Message(properties)
Properties ==
    {Undefined} \cup
    {Obj([idents |-> ids, header |-> p.header, parent_header |-> p.parent_header,
          metadata |-> p.metadata, content |-> p.content, buffers |-> bufs]) :
        ids \in {Undefined} \cup {Arr(s) : s \in SeqsUpTo(IdentFrames, MaxIdents)},
        p \in Payloads,
        bufs \in {Undefined} \cup {Arr(s) : s \in SeqsUpTo(BufferFrames, MaxBuffers)}}

\* frames a peer may put in the place of a frame
TamperFrames == {BigBuf, Buf(<<"{", "x">>), Buf(<<"null">>)}

NoTamper == [op |-> "none", pos |-> 0, frame |-> UndefinedFrame, resign |-> FALSE]

\* the position (from 1) of the first frame holding the delimiter, 0 if none
FirstDelimiter(fs) ==
    IF \E k \in 1..Len(fs) : ~fs[k].big /\ fs[k].data = DELIMITER
    THEN CHOOSE k \in 1..Len(fs) :
            /\ ~fs[k].big /\ fs[k].data = DELIMITER
            /\ \A j \in 1..(k - 1) : fs[j].big \/ fs[j].data # DELIMITER
    ELSE 0

\* a peer holding the key signs the four frames after the delimiter again
Resign(fs, scheme, key) ==
    LET d == FirstDelimiter(fs)
    IN  IF d = 0 \/ Len(fs) < d + 5 \/ key = "" THEN fs
        ELSE [fs EXCEPT ![d + 1] =
                Buf(HmacHex(DefaultScheme(scheme), key,
                            [k \in 1..4 |-> fs[d + 1 + k].data]))]


\* ------------------------------------------------------------------ Socket
\* The socket is the record [_listeners, _events]: this._jmp._listeners and the
\* listeners the ZMQ socket (an EventEmitter) holds for each event.
Listeners == {"L1", "L2"}
Events == {"message", "close"}
\* removeAllListeners() with no argument
NoEvent == ""

\* the handlers (by the id of the closure) whose call of the listener fails in
\* one delivery; a listener may fail in one call and not in the next. The loop
\* of emit ends at the first that does.
Throwers == {{}} \cup {{n} : n \in 1..MaxListeners}

\* what a listener throws when it fails
ListenerError == [name |-> "Error", message |-> "listener failed"]

\* a function registered with the EventEmitter: a listener as given, the
\* wrapper EventEmitter.once makes of it, or a closure made by on or once
Raw(listener) == [id |-> 0, kind |-> "raw", listener |-> listener]
OnceWrapper(listener) == [id |-> 0, kind |-> "onceWrapper", listener |-> listener]
Wrapped(id, kind, listener) == [id |-> id, kind |-> kind, listener |-> listener]

\* a new closure has an identity no closure the socket holds has
FreshId(s) ==
    LET used == {s._listeners[k].wrapped.id : k \in 1..Len(s._listeners)}
                \cup {s._events["message"][k].id : k \in 1..Len(s._events["message"])}
    IN  CHOOSE n \in 1..(Cardinality(used) + 1) : n \notin used

RemoveAt(seq, k) == SubSeq(seq, 1, k - 1) \o SubSeq(seq, k + 1, Len(seq))

\* EventEmitter.prototype.on
p_on(s, event, fn) ==
    [s EXCEPT !._events[event] = Append(@, fn)]

\* EventEmitter.prototype.removeListener: the last listener that is fn, or
\* that wraps fn, leaves the list
p_removeListener(s, event, fn) ==
    LET list == s._events[event]
        hits == {k \in 1..Len(list) :
                    \/ list[k] = fn
                    \/ (list[k].kind = "onceWrapper" /\ fn.kind = "raw"
                        /\ list[k].listener = fn.listener)}
    IN  IF hits = {} THEN s
        ELSE [s EXCEPT !._events[event] =
                RemoveAt(list, CHOOSE k \in hits : \A j \in hits : j <= k)]

\* EventEmitter.prototype.removeAllListeners
p_removeAllListeners(s, event) ==
    IF event = NoEvent
    THEN [s EXCEPT !._events = [e \in Events |-> <<>>]]
    ELSE [s EXCEPT !._events[event] = <<>>]

\* on that wraps the listener of every event
Socket_onWrapsAll(s, event, listener) ==
    p_on([s EXCEPT !._listeners =
                Append(@, [unwrapped |-> listener,
                           wrapped |-> Wrapped(FreshId(s), "on", listener)])],
         event, Wrapped(FreshId(s), "on", listener))

\* Socket.prototype.on (and addListener)
Socket_on(s, event, listener) ==
    IF event # "message" THEN p_on(s, event, Raw(listener))
    ELSE LET _listener == [unwrapped |-> listener,
                           wrapped |-> Wrapped(FreshId(s), "on", listener)]
         IN  p_on([s EXCEPT !._listeners = Append(@, _listener)],
                  event, _listener.wrapped)

\* once that registers with the EventEmitter alone
Socket_onceUnlisted(s, event, listener) ==
    IF event # "message" THEN p_on(s, event, OnceWrapper(listener))
    ELSE p_on(s, event, Wrapped(FreshId(s), "once", listener))

\* Socket.prototype.once
Socket_once(s, event, listener) ==
    IF event # "message" THEN p_on(s, event, OnceWrapper(listener))
    ELSE LET _listener == [unwrapped |-> listener,
                           wrapped |-> Wrapped(FreshId(s), "once", listener)]
         IN  p_on([s EXCEPT !._listeners = Append(@, _listener)],
                  event, _listener.wrapped)

\* removeListener that takes the latest entry of the callback
Socket_removeListenerLatest(s, event, listener) ==
    IF event # "message" THEN p_removeListener(s, event, Raw(listener))
    ELSE LET found == {k \in 1..Len(s._listeners) :
                          s._listeners[k].unwrapped = listener}
         IN  IF found # {}
             THEN LET i == CHOOSE k \in found : \A j \in found : j <= k
                  IN  p_removeListener(
                          [s EXCEPT !._listeners = RemoveAt(@, i)],
                          event, s._listeners[i].wrapped)
             ELSE p_removeListener(s, event, Raw(listener))

\* removeListener that takes the first entry when the callback has none
Socket_removeListenerOrFirst(s, event, listener) ==
    IF event # "message" THEN p_removeListener(s, event, Raw(listener))
    ELSE LET found == {k \in 1..Len(s._listeners) :
                          s._listeners[k].unwrapped = listener}
             i == IF found # {} THEN CHOOSE k \in found : \A j \in found : k <= j
                  ELSE 1
         IN  IF s._listeners # <<>>
             THEN p_removeListener([s EXCEPT !._listeners = RemoveAt(@, i)],
                                   event, s._listeners[i].wrapped)
             ELSE p_removeListener(s, event, Raw(listener))

\* Socket.prototype.removeListener
Socket_removeListener(s, event, listener) ==
    IF event # "message" THEN p_removeListener(s, event, Raw(listener))
    ELSE LET found == {k \in 1..Len(s._listeners) :
                          s._listeners[k].unwrapped = listener}
         IN  IF found # {}
             THEN LET i == CHOOSE k \in found : \A j \in found : k <= j
                  IN  p_removeListener(
                          [s EXCEPT !._listeners = RemoveAt(@, i)],
                          event, s._listeners[i].wrapped)
             ELSE p_removeListener(s, event, Raw(listener))

\* removeAllListeners that keeps this._jmp._listeners
Socket_removeAllListenersKeeping(s, event) == p_removeAllListeners(s, event)

\* removeAllListeners that empties this._jmp._listeners whatever the event
Socket_removeAllListenersClearing(s, event) ==
    p_removeAllListeners([s EXCEPT !._listeners = <<>>], event)

\* Socket.prototype.removeAllListeners
Socket_removeAllListeners(s, event) ==
    p_removeAllListeners(
        IF event = NoEvent \/ event = "message"
        THEN [s EXCEPT !._listeners = <<>>]
        ELSE s,
        event)

\* ------------------------------------------------------------ deliveries
\* the frames as the ZMQ socket hands them over: Buffers
AsBuffers(fs) == [k \in 1..Len(fs) |-> IF fs[k].type = "string" THEN Buf(fs[k].data) ELSE fs[k]]

Request == Message(Obj([idents |-> Arr(<<Buf(<<"id">>)>>), header |-> H1,
                        parent_header |-> Undefined, metadata |-> M1,
                        content |-> C1v, buffers |-> Arr(<<Buf(<<"b1">>)>>)]))

WireOf(scheme, key) == AsBuffers(Message_encode(Request, scheme, key))

\* what peers send: the message signed with the key of the socket, signed
\* with another key and unsigned; a header that is no JSON, signed by a peer
\* that holds the key; the frames cut after the ident (no delimiter) and after
\* metadata (too few frames)
DeliveriesOf(cfg) ==
    {WireOf(cfg.scheme, k) : k \in {cfg.key, "K2", ""}}
    \cup {Resign([WireOf(cfg.scheme, cfg.key) EXCEPT ![4] = Buf(<<"{", "x">>)],
                 cfg.scheme, cfg.key)}
    \cup {SubSeq(WireOf(cfg.scheme, cfg.key), 1, n) : n \in {1, 6}}

\* the configurations a Socket is made with: scheme and key, each may be omitted
Configs == {[scheme |-> "", key |-> "K1"], [scheme |-> "sha1", key |-> ""]}

Deliveries == [cfg \in Configs |-> DeliveriesOf(cfg)]

\* the decoding of a wrapper, without the key of the socket
WrapperDecodeNoKey(messageFrames, scheme, key) ==
    Message_decode(messageFrames, scheme, "")

\* Message._decode(arguments, this._jmp.scheme, this._jmp.key) of a wrapper
WrapperDecode(messageFrames, scheme, key) ==
    Message_decode(messageFrames, scheme, key)

\* WrapperDecode for each delivery a socket can get, computed once
DecodeTable ==
    [cfg \in Configs |->
        [fs \in Deliveries[cfg] |-> WrapperDecode(fs, cfg.scheme, cfg.key)]]

\* A run of a wrapper works on the record r: the socket r.s, the listeners
\* called so far r.invoked, the calls of removeListener the wrappers made
\* r.removed, and what the wrapper raised r.raised.
NoError == [kind |-> "none"]

Invoke(r, w, message, throwers) ==
    [r EXCEPT !.invoked = Append(@, [listener |-> w.listener, wrapper |-> w,
                                     message |-> message]),
              !.raised = IF w.id \in throwers THEN Throw(ListenerError) ELSE @]

SelfRemove(r, w) ==
    [r EXCEPT !.s = Socket_removeListener(@, "message", w.listener),
              !.removed = Append(@, w.listener)]

\* the closure `wrapped` of Socket.prototype.on; message is the outcome of
\* its call Message._decode(arguments, this._jmp.scheme, this._jmp.key)
WrappedOn(r, w, message, throwers) ==
    IF message.kind = "throw" THEN [r EXCEPT !.raised = message]
    ELSE IF message.value # Null THEN Invoke(r, w, message.value, throwers)
    ELSE r

\* the closure `wrapped` of Socket.prototype.once; message is the outcome of
\* its call Message._decode(arguments, this._jmp.scheme, this._jmp.key)
WrappedOnce(r, w, message, throwers) ==
    IF message.kind = "throw" THEN [r EXCEPT !.raised = message]
    ELSE IF message.value # Null
    THEN SelfRemove(Invoke(r, w, message.value, throwers), w)
    ELSE SelfRemove(r, w)

\* the call of the handler w, a closure of on or of once
CallWrapped(r, w, message, throwers) ==
    IF w.kind = "on" THEN WrappedOn(r, w, message, throwers)
    ELSE WrappedOnce(r, w, message, throwers)

RECURSIVE EmitLoop(_, _, _, _, _)
\* the loop of EventEmitter.prototype.emit over its copy of the listeners: it
\* ends at the first listener that throws
EmitLoop(r, handlers, cfg, messageFrames, throwers) ==
    IF handlers = <<>> \/ r.raised # NoError THEN r
    ELSE EmitLoop(CallWrapped(r, Head(handlers), DecodeTable[cfg][messageFrames],
                              throwers),
                  Tail(handlers), cfg, messageFrames, throwers)

\* emit("message", ...messageFrames) by the ZMQ socket
Emit(s, cfg, messageFrames, throwers) ==
    EmitLoop([s |-> s, invoked |-> <<>>, removed |-> <<>>, raised |-> NoError],
             s._events["message"], cfg, messageFrames, throwers)

\* ----------------------------------------------------------- legacy module
\* The first module of src/index.js: a Message that parses the frames in its
\* constructor, and a Socket whose wrappers give every delivery to the
\* listener.  Absent fields hold undefined; signatureOK holds "undefined",
\* "true" or "false".
RECURSIVE Legacy_scan(_, _)
\* the for loop of parse: where it stops, and whether toString threw there
Legacy_scan(requestArguments, i) ==
    IF i >= Len(requestArguments) THEN [i |-> i, thrown |-> FALSE]
    ELSE IF toString(At(requestArguments, i)).kind = "throw"
    THEN [i |-> i, thrown |-> TRUE]
    ELSE IF toString(At(requestArguments, i)).value = DELIMITER
    THEN [i |-> i, thrown |-> FALSE]
    ELSE Legacy_scan(requestArguments, i + 1)

\* the assignments of parse from this.header on; h, p, m, c are the outcomes
\* of toJSON on the four frames, and the first that throws ends parse
Legacy_assign(this, h, p, m, c, blobs) ==
    IF h.kind = "throw" THEN this
    ELSE IF p.kind = "throw" THEN [this EXCEPT !.header = h.value]
    ELSE IF m.kind = "throw"
    THEN [this EXCEPT !.header = h.value, !.parentHeader = p.value]
    ELSE IF c.kind = "throw"
    THEN [this EXCEPT !.header = h.value, !.parentHeader = p.value,
                      !.metadata = m.value]
    ELSE [this EXCEPT !.header = h.value, !.parentHeader = p.value,
                      !.metadata = m.value, !.content = c.value,
                      !.blobs = Arr(blobs)]

\* parse once the signature is accepted
Legacy_segments(this, requestArguments, i) ==
    Legacy_assign([this EXCEPT !.signatureOK = "true"],
                  toJSON(At(requestArguments, i + 2)),
                  toJSON(At(requestArguments, i + 3)),
                  toJSON(At(requestArguments, i + 4)),
                  toJSON(At(requestArguments, i + 5)),
                  SubSeq(requestArguments, i + 7, Len(requestArguments)))

\* the signature check of parse under a key; obtained and expected are the
\* outcomes of toString on the signature frame and of the HMAC
Legacy_verify(this, requestArguments, i, obtained, expected) ==
    IF obtained.kind = "throw" THEN this
    ELSE IF expected.kind = "throw"
    THEN [this EXCEPT !.signature = Str(obtained.value)]
    ELSE IF obtained.value = expected.value
    THEN Legacy_segments([this EXCEPT !.signature = Str(obtained.value)],
                         requestArguments, i)
    ELSE [this EXCEPT !.signature = Str(obtained.value), !.signatureOK = "false"]

\* parse from the test of the length on, i the index the scan stopped at
Legacy_after(this, requestArguments, i) ==
    IF Len(requestArguments) - i < 5 THEN this
    ELSE IF toString(At(requestArguments, i)).kind = "throw" THEN this
    ELSE IF toString(At(requestArguments, i)).value # DELIMITER THEN this
    ELSE IF this.key = "" THEN Legacy_segments(this, requestArguments, i)
    ELSE Legacy_verify(this, requestArguments, i,
                       toString(At(requestArguments, i + 1)),
                       ExpectedSignature(requestArguments, i, this.scheme, this.key))

\* Message.prototype.parse of the legacy module, within the try of the
\* constructor: what is thrown is caught and the fields set so far stay
Legacy_parse(this, requestArguments, scan) ==
    IF scan.thrown
    THEN [this EXCEPT !.idents = Arr(SubSeq(requestArguments, 1, scan.i))]
    ELSE Legacy_after([this EXCEPT !.idents = Arr(SubSeq(requestArguments, 1, scan.i))],
                      requestArguments, scan.i)

\* new Message(requestArguments, scheme, key) of the legacy module
Legacy_Message(requestArguments, scheme, key) ==
    Legacy_parse([idents |-> Undefined, signature |-> UndefinedFrame,
                  header |-> Undefined, parentHeader |-> Undefined,
                  metadata |-> Undefined, content |-> Undefined,
                  blobs |-> Undefined, scheme |-> DefaultScheme(scheme),
                  key |-> key, signatureOK |-> "undefined"],
                 requestArguments, Legacy_scan(requestArguments, 0))

\* Legacy_Message for each delivery a socket can get, computed once
Legacy_MessageTable ==
    [cfg \in Configs |->
        [fs \in Deliveries[cfg] |-> Legacy_Message(fs, cfg.scheme, cfg.key)]]

\* Socket.prototype.on (and addListener) of the legacy module
Legacy_on(s, event, listener) ==
    IF event # "message" THEN p_on(s, event, Raw(listener))
    ELSE LET _listener == [unwrapped |-> listener,
                           wrapped |-> Wrapped(FreshId(s), "legacyOn", listener)]
         IN  p_on([s EXCEPT !._listeners = Append(@, _listener)],
                  event, _listener.wrapped)

\* Socket.prototype.once of the legacy module: p.once is given a closure that
\* this._jmp._listeners does not get
Legacy_once(s, event, listener) ==
    IF event # "message" THEN p_on(s, event, OnceWrapper(listener))
    ELSE p_on(s, event, Wrapped(FreshId(s), "legacyOnce", listener))

\* Socket.prototype.removeListener of the legacy module
Legacy_removeListener(s, event, listener) ==
    IF event # "message" THEN p_removeListener(s, event, Raw(listener))
    ELSE LET found == {k \in 1..Len(s._listeners) :
                          s._listeners[k].unwrapped = listener}
         IN  IF found # {}
             THEN LET i == CHOOSE k \in found : \A j \in found : k <= j
                  IN  p_removeListener(
                          [s EXCEPT !._listeners = RemoveAt(@, i)],
                          event, s._listeners[i].wrapped)
             ELSE p_removeListener(s, event, Raw(listener))

\* Socket.prototype.removeAllListeners of the legacy module: the socket after
\* the call and what the call raised. It ends with
\* p.removeListener.apply(this, arguments), and removeListener of the
\* EventEmitter, given no function, throws before it removes anything.
Legacy_removeAllListeners(s, event) ==
    [s |-> IF event = NoEvent \/ event = "message"
           THEN [s EXCEPT !._listeners = <<>>]
           ELSE s,
     raised |-> Throw([name |-> "TypeError",
                       message |-> "listener must be a function"])]

\* the call of a handler of the legacy socket: the wrapper EventEmitter.once
\* made removes itself, then the closure gives the listener the Message
RECURSIVE Legacy_emitLoop(_, _, _, _)
Legacy_emitLoop(r, handlers, message, throwers) ==
    IF handlers = <<>> \/ r.raised # NoError THEN r
    ELSE IF Head(handlers).kind = "legacyOnce"
    THEN Legacy_emitLoop(
             Invoke([r EXCEPT !.s = p_removeListener(@, "message", Head(handlers))],
                    Head(handlers), message, throwers),
             Tail(handlers), message, throwers)
    ELSE Legacy_emitLoop(Invoke(r, Head(handlers), message, throwers),
                         Tail(handlers), message, throwers)

\* emit("message", ...requestArguments) by the ZMQ socket
Legacy_emit(s, cfg, requestArguments, throwers) ==
    Legacy_emitLoop([s |-> s, invoked |-> <<>>, removed |-> <<>>, raised |-> NoError],
                    s._events["message"],
                    Legacy_MessageTable[cfg][requestArguments], throwers)

\* ----------------------------------------------------------------- respond
\* object[key]: undefined when the object has no such member
Get(f, key) == IF key \in DOMAIN f THEN f[key] ELSE UndefinedValue

\* object[key] = value
Put(f, key, value) ==
    [k \in DOMAIN f \cup {key} |-> IF k = key THEN value ELSE f[k]]

\* ToBoolean of what a member or an argument holds: the empty string and
\* undefined are falsy
TruthyValue(tok) == tok \notin {"", UndefinedValue}

\* uuid() that gives the same value at every call
uuidConstant(n) == "uuid-0"

\* uuid(): the value of the call after n calls; no two calls give the same
uuid(n) == "uuid-" \o ToString(n)

\* this.header.username of a Message without header
PropertyOfUndefined ==
    [name |-> "TypeError", message |-> "Cannot read property 'username' of undefined"]
\* this.header.username of a Message whose header is null
PropertyOfNull ==
    [name |-> "TypeError", message |-> "Cannot read property 'username' of null"]

\* if (version) header.version = version
WithVersion(header, version) ==
    IF TruthyValue(version) THEN Put(header, "version", version) ELSE header

\* the version of this.header last, so that it wins
ResponseHeaderInheritedWins(this, messageType, protocolVersion, n) ==
    WithVersion(
        WithVersion([msg_id |-> uuid(n),
                     username |-> Get(this.header.v, "username"),
                     session |-> Get(this.header.v, "session"),
                     msg_type |-> messageType],
                    protocolVersion),
        Get(this.header.v, "version"))

\* response.header of respond
ResponseHeader(this, messageType, protocolVersion, n) ==
    WithVersion(
        WithVersion([msg_id |-> uuid(n),
                     username |-> Get(this.header.v, "username"),
                     session |-> Get(this.header.v, "session"),
                     msg_type |-> messageType],
                    Get(this.header.v, "version")),
        protocolVersion)

\* a response that takes the buffers of the Message it answers
ResponseCarryingBuffers(this, messageType, content, metadata, protocolVersion, n) ==
    [Message(Undefined) EXCEPT
        !.idents = this.idents,
        !.header = Obj(ResponseHeader(this, messageType, protocolVersion, n)),
        !.parent_header = this.header,
        !.content = Or(content, Obj(<<>>)),
        !.metadata = Or(metadata, Obj(<<>>)),
        !.buffers = this.buffers]

\* the response respond builds: new Message() and the assignments to it
Response(this, messageType, content, metadata, protocolVersion, n) ==
    [Message(Undefined) EXCEPT
        !.idents = this.idents,
        !.header = Obj(ResponseHeader(this, messageType, protocolVersion, n)),
        !.parent_header = this.header,
        !.content = Or(content, Obj(<<>>)),
        !.metadata = Or(metadata, Obj(<<>>))]

\* socket.send(response); return response
SendAndReturn(response) ==
    [outcome |-> Ret(response),
     sent |-> <<[message |-> response, flags |-> UndefinedValue]>>]

\* respond that returns the response and sends nothing
respondUnsent(this, messageType, content, metadata, protocolVersion, n) ==
    [outcome |-> Ret(Response(this, messageType, content, metadata, protocolVersion, n)),
     sent |-> <<>>]

\* respond that takes an absent header for an empty one
respondLenient(this, messageType, content, metadata, protocolVersion, n) ==
    SendAndReturn(
        Response([this EXCEPT !.header = Or(this.header, Obj(<<>>))],
                 messageType, content, metadata, protocolVersion, n))

\* Message.prototype.respond: what it returns or throws, and the calls of
\* socket.send it made; n counts the calls of uuid() before it
respond(this, messageType, content, metadata, protocolVersion, n) ==
    IF ~Truthy(this.header)
    THEN [outcome |-> Throw(IF this.header = Null THEN PropertyOfNull
                            ELSE PropertyOfUndefined),
          sent |-> <<>>]
    ELSE SendAndReturn(
            Response(this, messageType, content, metadata, protocolVersion, n))

\* the Message `this` after this.respond(socket, ...), socket made with cfg:
\* respond assigns to the response alone, but the response shares the arrays
\* and objects this.idents and this.header, and socket.send encodes it
AfterRespond(this, cfg, messageType, content, metadata, protocolVersion, n) ==
    IF ~Truthy(this.header) THEN this
    ELSE [this EXCEPT
            !.idents =
                AfterEncode(Response(this, messageType, content, metadata,
                                     protocolVersion, n),
                            cfg.scheme, cfg.key).idents,
            !.header =
                AfterEncode(Response(this, messageType, content, metadata,
                                     protocolVersion, n),
                            cfg.scheme, cfg.key).parent_header]

\* -------------------------------------------------------------------- send
\* message instanceof Message
instanceofMessage(message) == "parent_header" \in DOMAIN message

\* send that signs no Message
Socket_sendUnsigned(cfg, message, flags) ==
    IF "parent_header" \in DOMAIN message
    THEN <<[payload |-> Arr(Message_encode(message, cfg.scheme, "")),
            flags |-> flags]>>
    ELSE <<[payload |-> message, flags |-> flags]>>

\* send that encodes whatever it is given
Socket_sendAlwaysEncodes(cfg, message, flags) ==
    <<[payload |-> Arr(Message_encode(
                        IF "parent_header" \in DOMAIN message
                        THEN message ELSE Message(Undefined),
                        cfg.scheme, cfg.key)),
       flags |-> flags]>>

\* Socket.prototype.send on a socket made with cfg: the calls of the send of
\* the ZMQ socket it makes
Socket_send(cfg, message, flags) ==
    IF instanceofMessage(message)
    THEN <<[payload |-> Arr(Message_encode(message, cfg.scheme, cfg.key)),
            flags |-> flags]>>
    ELSE <<[payload |-> message, flags |-> flags]>>

\* the argument of socket.send(message, flags) after the call, socket made
\* with cfg
AfterSend(cfg, message, flags) ==
    IF instanceofMessage(message) THEN AfterEncode(message, cfg.scheme, cfg.key)
    ELSE message

\* ------------------------------------------------------------------- state
\* the codec at work: a Message, its encoding, the frames as they arrive, the
\* outcome of decoding them
VARIABLES cpc, msg, encScheme, encKey, frames, tamper, decScheme, decKey, result
\* a Socket: this._jmp.scheme, this._jmp.key, this._jmp._listeners, the
\* listeners of the EventEmitter, the last call made on the socket, and for
\* each callback the registrations of it that no call of removeListener took
VARIABLES jmp_scheme, jmp_key, jmp_listeners, events, last, registered

codecVars == <<cpc, msg, encScheme, encKey, frames, tamper, decScheme, decKey, result>>
socketVars == <<jmp_scheme, jmp_key, jmp_listeners, events, last, registered>>
\* a request and its reply between a client and a server socket made with
\* jmp_scheme and jmp_key: the Message of the client, the calls of uuid() so
\* far, the last call of respond, the last call of send by the client, and
\* what the delivery at the server and at the client did
VARIABLES rpc, request, uuids, respondCall, sendCall, atServer, atClient
replyVars == <<rpc, request, uuids, respondCall, sendCall, atServer, atClient>>
vars == <<codecVars, socketVars, replyVars>>

NoResult == [kind |-> "none"]

CodecIdle ==
    /\ cpc = "new"
    /\ encScheme = "" /\ encKey = ""
    /\ frames = <<>>
    /\ tamper = NoTamper
    /\ decScheme = "" /\ decKey = ""
    /\ result = NoResult

NoRespond ==
    [this |-> Message(Undefined), messageType |-> "", content |-> Undefined,
     metadata |-> Undefined, protocolVersion |-> UndefinedValue, n |-> 0,
     outcome |-> NoResult, sent |-> <<>>, after |-> Message(Undefined)]

NoSend == [message |-> Undefined, flags |-> UndefinedValue, transport |-> <<>>]

NoDelivery == [frames |-> <<>>, invoked |-> <<>>, raised |-> NoError, transport |-> <<>>]

ReplyIdle ==
    /\ rpc = "new"
    /\ uuids = 0
    /\ respondCall = NoRespond
    /\ sendCall = NoSend
    /\ atServer = NoDelivery
    /\ atClient = NoDelivery

\* the record of a call: `had` tells that removeListener was given a callback
\* with a registration not yet removed
Call(op, event, listener) ==
    [op |-> op, event |-> event, listener |-> listener, had |-> FALSE,
     frames |-> <<>>, invoked |-> <<>>, raised |-> NoError]

\* new Socket(socketType, scheme, key)
SocketNew(scheme, key) ==
    /\ jmp_scheme = scheme /\ jmp_key = key
    /\ jmp_listeners = <<>>
    /\ events = [e \in Events |-> <<>>]
    /\ last = Call("new", NoEvent, "")
    /\ registered = [l \in Listeners |-> 0]

CodecInit ==
    /\ msg \in {Message(properties) : properties \in Properties}
    /\ CodecIdle
    /\ SocketNew("", "")
    /\ request = Message(Undefined)
    /\ ReplyIdle

\* frames = msg._encode(scheme, key)
Encode(scheme, key) ==
    /\ cpc = "new"
    /\ cpc' = "encoded"
    /\ encScheme' = scheme /\ encKey' = key
    /\ frames' = Message_encode(msg, scheme, key)
    /\ UNCHANGED <<msg, tamper, decScheme, decKey, result, socketVars, replyVars>>

Tampered(op, pos, frame, resign, fs) ==
    /\ cpc = "encoded"
    /\ cpc' = "tampered"
    /\ tamper' = [op |-> op, pos |-> pos, frame |-> frame, resign |-> resign]
    /\ frames' = fs
    /\ UNCHANGED <<msg, encScheme, encKey, decScheme, decKey, result, socketVars, replyVars>>

\* one frame is lost
DropFrame(pos) ==
    /\ pos \in 1..Len(frames)
    /\ Tampered("drop", pos, UndefinedFrame, FALSE,
                SubSeq(frames, 1, pos - 1) \o SubSeq(frames, pos + 1, Len(frames)))

\* one frame is replaced; with resign the peer signs the result
ReplaceFrame(pos, frame, resign) ==
    /\ pos \in 1..Len(frames)
    /\ frames[pos] # frame
    /\ resign => encKey # ""
    /\ Tampered("replace", pos, frame, resign,
                IF resign
                THEN Resign([frames EXCEPT ![pos] = frame], encScheme, encKey)
                ELSE [frames EXCEPT ![pos] = frame])

\* only the first n frames arrive
TruncateFrames(n) ==
    /\ n \in 0..(Len(frames) - 1)
    /\ Tampered("truncate", n, UndefinedFrame, FALSE, SubSeq(frames, 1, n))

\* messageFrames.unshift(frame)
UnshiftFrame(frame) ==
    /\ frame \in TamperFrames
    /\ Tampered("unshift", 1, frame, FALSE, <<frame>> \o frames)

\* messageFrames.push(frame)
PushFrame(frame) ==
    /\ frame \in TamperFrames
    /\ Tampered("push", Len(frames) + 1, frame, FALSE, Append(frames, frame))

\* result = Message._decode(frames, scheme, key)
Decode(scheme, key) ==
    /\ cpc \in {"encoded", "tampered"}
    /\ cpc' = "decoded"
    /\ decScheme' = scheme /\ decKey' = key
    /\ result' = Message_decode(frames, scheme, key)
    /\ UNCHANGED <<msg, encScheme, encKey, frames, tamper, socketVars, replyVars>>

\* the arguments respond is called with
MessageTypes == {"reply"}
Contents == {Undefined, Obj([x |-> "r"])}
Metadatas == {Undefined, M1}
ProtocolVersions == {UndefinedValue, "", "5.1"}

\* the listener responds to the Message it was given:
\* result.respond(socket, messageType, content)
RespondDecoded(messageType, content) ==
    /\ cpc = "decoded"
    /\ result.kind = "return" /\ result.value # Null
    /\ cpc' = "responded"
    /\ respondCall' = [this |-> result.value, messageType |-> messageType,
                        content |-> content, metadata |-> Undefined,
                        protocolVersion |-> UndefinedValue, n |-> uuids,
                        outcome |-> respond(result.value, messageType, content,
                                            Undefined, UndefinedValue, uuids).outcome,
                        sent |-> respond(result.value, messageType, content,
                                         Undefined, UndefinedValue, uuids).sent,
                        after |-> AfterRespond(result.value,
                                               [scheme |-> jmp_scheme, key |-> jmp_key],
                                               messageType, content,
                                               Undefined, UndefinedValue, uuids)]
    /\ uuids' = uuids + 1
    /\ UNCHANGED <<msg, encScheme, encKey, frames, tamper, decScheme, decKey, result,
                   rpc, request, sendCall, atServer, atClient, socketVars>>

CodecNext ==
    \/ \E sk \in SchemeKeys : Encode(sk[1], sk[2])
    \/ \E pos \in 1..(MaxIdents + MaxBuffers + 6) : DropFrame(pos)
    \/ \E pos \in 1..(MaxIdents + MaxBuffers + 6), frame \in TamperFrames,
          resign \in BOOLEAN : ReplaceFrame(pos, frame, resign)
    \/ \E n \in 0..(MaxIdents + MaxBuffers + 6) : TruncateFrames(n)
    \/ \E frame \in TamperFrames : UnshiftFrame(frame)
    \/ \E frame \in TamperFrames : PushFrame(frame)
    \/ \E sk \in SchemeKeys : Decode(sk[1], sk[2])
    \/ \E messageType \in MessageTypes, content \in Contents :
          RespondDecoded(messageType, content)

CodecSpec == CodecInit /\ [][CodecNext]_vars

\* ----------------------------------------------------------- socket actions
This == [_listeners |-> jmp_listeners, _events |-> events]
Config == [scheme |-> jmp_scheme, key |-> jmp_key]

Init ==
    /\ msg = Message(Undefined)
    /\ CodecIdle
    /\ \E cfg \in Configs : SocketNew(cfg.scheme, cfg.key)
    /\ request = Message(Undefined)
    /\ ReplyIdle

Becomes(s) ==
    /\ jmp_listeners' = s._listeners
    /\ events' = s._events
    /\ UNCHANGED <<jmp_scheme, jmp_key, codecVars, replyVars>>

RECURSIVE Total(_, _)
Total(evs, es) ==
    IF es = {} THEN 0
    ELSE LET e == CHOOSE x \in es : TRUE
         IN  Len(evs[e]) + Total(evs, es \ {e})

Room == Total(events, Events) < MaxListeners

Register(event, listener) ==
    registered' = IF event = "message"
                  THEN [registered EXCEPT ![listener] = @ + 1]
                  ELSE registered

\* socket.on(event, listener)
On(event, listener) ==
    /\ Room
    /\ Becomes(Socket_on(This, event, listener))
    /\ last' = Call("on", event, listener)
    /\ Register(event, listener)

\* socket.addListener(event, listener)
AddListener(event, listener) ==
    /\ Room
    /\ Becomes(Socket_on(This, event, listener))
    /\ last' = Call("addListener", event, listener)
    /\ Register(event, listener)

\* socket.once(event, listener)
Once(event, listener) ==
    /\ Room
    /\ Becomes(Socket_once(This, event, listener))
    /\ last' = Call("once", event, listener)
    /\ Register(event, listener)

RECURSIVE Unregister(_, _)
\* the count of each callback after the calls removeListener('message', l),
\* l in ls
Unregister(reg, ls) ==
    IF ls = <<>> THEN reg
    ELSE Unregister([reg EXCEPT ![Head(ls)] = IF @ > 0 THEN @ - 1 ELSE 0], Tail(ls))

\* socket.removeListener(event, listener)
RemoveListener(event, listener) ==
    /\ Becomes(Socket_removeListener(This, event, listener))
    /\ last' = [Call("removeListener", event, listener) EXCEPT
                    !.had = (event = "message" /\ registered[listener] > 0)]
    /\ registered' = IF event = "message"
                     THEN Unregister(registered, <<listener>>)
                     ELSE registered

\* socket.removeAllListeners(event), socket.removeAllListeners()
RemoveAllListeners(event) ==
    /\ Becomes(Socket_removeAllListeners(This, event))
    /\ last' = Call("removeAllListeners", event, "")
    /\ registered' = IF event \in {NoEvent, "message"}
                     THEN [l \in Listeners |-> 0]
                     ELSE registered

\* the socket and the record of the call once emit has run the handlers, r
\* what the run gave
Emitted(messageFrames, r) ==
    /\ Becomes(r.s)
    /\ last' = [Call("deliver", "message", "") EXCEPT
                    !.frames = messageFrames, !.invoked = r.invoked,
                    !.raised = r.raised]
    /\ registered' = Unregister(registered, r.removed)

\* the ZMQ socket emits 'message' with the frames it received; the listeners
\* in throwers fail when called
Deliver(messageFrames, throwers) ==
    /\ messageFrames \in Deliveries[Config]
    /\ Emitted(messageFrames, Emit(This, Config, messageFrames, throwers))

Next ==
    \/ \E event \in Events, listener \in Listeners : On(event, listener)
    \/ \E event \in Events, listener \in Listeners : AddListener(event, listener)
    \/ \E event \in Events, listener \in Listeners : Once(event, listener)
    \/ \E event \in Events, listener \in Listeners : RemoveListener(event, listener)
    \/ \E event \in Events \cup {NoEvent} : RemoveAllListeners(event)
    \/ \E messageFrames \in Deliveries[Config], throwers \in Throwers :
          Deliver(messageFrames, throwers)

Spec == Init /\ [][Next]_vars

\* ----------------------------------------------------------- legacy actions
\* socket.on(event, listener)
LegacyOn(event, listener) ==
    /\ Room
    /\ Becomes(Legacy_on(This, event, listener))
    /\ last' = Call("on", event, listener)
    /\ UNCHANGED registered

\* socket.addListener(event, listener)
LegacyAddListener(event, listener) ==
    /\ Room
    /\ Becomes(Legacy_on(This, event, listener))
    /\ last' = Call("addListener", event, listener)
    /\ UNCHANGED registered

\* socket.once(event, listener)
LegacyOnce(event, listener) ==
    /\ Room
    /\ Becomes(Legacy_once(This, event, listener))
    /\ last' = Call("once", event, listener)
    /\ UNCHANGED registered

\* socket.removeListener(event, listener)
LegacyRemoveListener(event, listener) ==
    /\ event \in Events
    /\ Becomes(Legacy_removeListener(This, event, listener))
    /\ last' = Call("removeListener", event, listener)
    /\ UNCHANGED registered

\* socket.removeAllListeners(event), socket.removeAllListeners()
LegacyRemoveAllListeners(event) ==
    /\ event \in Events \cup {NoEvent}
    /\ Becomes(Legacy_removeAllListeners(This, event).s)
    /\ last' = [Call("removeAllListeners", event, "") EXCEPT
                    !.raised = Legacy_removeAllListeners(This, event).raised]
    /\ UNCHANGED registered

\* the ZMQ socket emits 'message' with the frames it received
LegacyDeliver(requestArguments, throwers) ==
    /\ requestArguments \in Deliveries[Config]
    /\ Becomes(Legacy_emit(This, Config, requestArguments, throwers).s)
    /\ last' = [Call("deliver", "message", "") EXCEPT
                    !.frames = requestArguments,
                    !.invoked = Legacy_emit(This, Config, requestArguments,
                                            throwers).invoked,
                    !.raised = Legacy_emit(This, Config, requestArguments,
                                           throwers).raised]
    /\ UNCHANGED registered

LegacyNext ==
    \/ \E event \in Events, listener \in Listeners : LegacyOn(event, listener)
    \/ \E event \in Events, listener \in Listeners : LegacyAddListener(event, listener)
    \/ \E event \in Events, listener \in Listeners : LegacyOnce(event, listener)
    \/ \E event \in Events, listener \in Listeners :
          LegacyRemoveListener(event, listener)
    \/ \E event \in Events \cup {NoEvent} : LegacyRemoveAllListeners(event)
    \/ \E requestArguments \in Deliveries[Config], throwers \in Throwers :
          LegacyDeliver(requestArguments, throwers)

LegacySpec == Init /\ [][LegacyNext]_vars

\* ------------------------------------------------------------ reply actions
\* headers of requests: complete, without username, session and version, and
\* with an empty version
HFull == Obj([msg_id |-> "1", username |-> "u", session |-> "s",
              msg_type |-> "req", version |-> "5.0"])
HBare == Obj([msg_id |-> "2", msg_type |-> "req"])
HEmptyVersion == Obj([msg_id |-> "3", username |-> "u", session |-> "s",
                      msg_type |-> "req", version |-> ""])
HUndefinedMember == Obj([msg_id |-> "4", username |-> UndefinedValue,
                         msg_type |-> "req"])

\* the Messages a client makes
Requests ==
    {Message(Undefined)} \cup
    {Message(Obj([idents |-> Arr(ids), header |-> h, parent_header |-> Undefined,
                  metadata |-> M1, content |-> C1v, buffers |-> Arr(bufs)])) :
        ids \in SeqsUpTo({Buf(<<"id">>)}, MaxIdents),
        h \in {HFull, HBare, HEmptyVersion},
        bufs \in SeqsUpTo({Buf(<<"b1">>)}, MaxBuffers)} \cup
    {Message(Obj([idents |-> Arr(ids), header |-> h, parent_header |-> Undefined,
                  metadata |-> Undefined, content |-> Undefined,
                  buffers |-> Undefined])) :
        ids \in {<<Str(DELIMITER)>>, <<BigBuf>>, <<>>},
        h \in {HFull, HUndefinedMember}}

\* what send is given that is no Message: an array of frames, a frame
RawSends == {Arr(<<Str(<<"raw">>), Buf(<<"raw">>)>>), Str(<<"raw">>)}
Flags == {UndefinedValue, "ZMQ_SNDMORE"}

\* delete m.header
Headerless(m) == [m EXCEPT !.header = Undefined]
\* m.header = null
HeaderNull(m) == [m EXCEPT !.header = Null]

ReplyInit ==
    /\ msg = Message(Undefined)
    /\ CodecIdle
    /\ \E cfg \in Configs : SocketNew(cfg.scheme, cfg.key)
    /\ request \in Requests
    /\ ReplyIdle

\* the record of a call of respond
Responding(this, messageType, content, metadata, protocolVersion) ==
    [this |-> this, messageType |-> messageType, content |-> content,
     metadata |-> metadata, protocolVersion |-> protocolVersion, n |-> uuids,
     outcome |-> respond(this, messageType, content, metadata,
                         protocolVersion, uuids).outcome,
     sent |-> respond(this, messageType, content, metadata,
                      protocolVersion, uuids).sent,
     after |-> AfterRespond(this, Config, messageType, content, metadata,
                            protocolVersion, uuids)]

\* the Messages the application holds to respond to: the request, the request
\* without its header or with null for header, then the response of the call
\* before
Subjects ==
    IF rpc = "new" THEN {request, Headerless(request), HeaderNull(request)}
    ELSE IF rpc = "responded" THEN {respondCall.outcome.value}
    ELSE {}

\* this.respond(socket, messageType, content, metadata, protocolVersion)
Respond(this, messageType, content, metadata, protocolVersion) ==
    /\ this \in Subjects
    /\ uuids < MaxResponds
    /\ respondCall' = Responding(this, messageType, content, metadata, protocolVersion)
    /\ uuids' = uuids + 1
    /\ rpc' = IF Truthy(this.header) THEN "responded" ELSE "failed"
    /\ UNCHANGED <<request, sendCall, atServer, atClient, codecVars, socketVars>>

\* clientSocket.send(message, flags)
Send(message, flags) ==
    /\ rpc = "new"
    /\ sendCall' = [message |-> message, flags |-> flags,
                    transport |-> Socket_send(Config, message, flags)]
    /\ rpc' = IF message = request THEN "sent" ELSE "sentRaw"
    /\ request' = IF message = request THEN AfterSend(Config, message, flags)
                  ELSE request
    /\ UNCHANGED <<uuids, respondCall, atServer, atClient, codecVars, socketVars>>

\* frames = request._encode(scheme, key), called by the application itself
EncodeRequest(scheme, key) ==
    /\ rpc = "new"
    /\ rpc' = "encoded"
    /\ encScheme' = scheme /\ encKey' = key
    /\ frames' = Message_encode(request, scheme, key)
    /\ request' = AfterEncode(request, scheme, key)
    /\ UNCHANGED <<cpc, msg, tamper, decScheme, decKey, result, uuids, respondCall,
                   sendCall, atServer, atClient, socketVars>>

\* the identity of the client socket
Identity == Buf(<<"client">>)

\* the frames a router socket hands over: the identity of the sender first
RouterReceives(payload) == <<Identity>> \o AsBuffers(payload)

\* the frames a dealer socket hands over: the router has taken the first frame,
\* the identity, to find it
DealerReceives(payload) == AsBuffers(Tail(payload))

NoSocket == [_listeners |-> <<>>, _events |-> [e \in Events |-> <<>>]]

\* the run of the one 'message' handler of a socket on which
\* on("message", listener) was called, given the frames
Handle(listener, messageFrames) ==
    CallWrapped([s |-> Socket_on(NoSocket, "message", listener),
                 invoked |-> <<>>, removed |-> <<>>, raised |-> NoError],
                Socket_on(NoSocket, "message", listener)._events["message"][1],
                WrapperDecode(messageFrames, jmp_scheme, jmp_key), {})

\* getRequest has called message.respond(serverSocket, ...): call is the
\* record of that call
Answered(messageFrames, r, call) ==
    /\ respondCall' = call
    /\ uuids' = uuids + 1
    /\ atServer' = [frames |-> messageFrames, invoked |-> r.invoked,
                    raised |-> r.raised,
                    transport |-> Socket_send(Config, call.sent[1].message,
                                              call.sent[1].flags)]

\* the 'message' handler of the server has run
Served(messageFrames, r, messageType, content, metadata, protocolVersion) ==
    IF r.invoked = <<>>
    THEN /\ atServer' = [frames |-> messageFrames, invoked |-> <<>>,
                         raised |-> r.raised, transport |-> <<>>]
         /\ UNCHANGED <<respondCall, uuids>>
    ELSE Answered(messageFrames, r,
                  Responding(r.invoked[1].message, messageType, content,
                             metadata, protocolVersion))

\* the server socket emits 'message' with what the client sent; its listener
\* getRequest responds to the Message it is given
ServerReceives(messageType, content, metadata, protocolVersion) ==
    /\ rpc = "sent"
    /\ uuids < MaxResponds
    /\ Served(RouterReceives(sendCall.transport[1].payload.v),
              Handle("getRequest", RouterReceives(sendCall.transport[1].payload.v)),
              messageType, content, metadata, protocolVersion)
    /\ rpc' = "served"
    /\ UNCHANGED <<request, sendCall, atClient, codecVars, socketVars>>

\* the 'message' handler of the client has run
Received(messageFrames, r) ==
    atClient' = [frames |-> messageFrames, invoked |-> r.invoked,
                 raised |-> r.raised, transport |-> <<>>]

\* the client socket emits 'message' with what the server sent
ClientReceives ==
    /\ rpc = "served"
    /\ atServer.transport # <<>>
    /\ Received(DealerReceives(atServer.transport[1].payload.v),
                Handle("getResponse", DealerReceives(atServer.transport[1].payload.v)))
    /\ rpc' = "replied"
    /\ UNCHANGED <<request, uuids, respondCall, sendCall, atServer, codecVars, socketVars>>

ReplyNext ==
    \/ \E this \in Subjects,
          messageType \in MessageTypes, content \in Contents,
          metadata \in Metadatas, protocolVersion \in ProtocolVersions :
          Respond(this, messageType, content, metadata, protocolVersion)
    \/ \E message \in {request} \cup RawSends, flags \in Flags : Send(message, flags)
    \/ \E sk \in SchemeKeys : EncodeRequest(sk[1], sk[2])
    \/ \E messageType \in MessageTypes, content \in Contents,
          metadata \in Metadatas, protocolVersion \in ProtocolVersions :
          ServerReceives(messageType, content, metadata, protocolVersion)
    \/ ClientReceives

ReplySpec == ReplyInit /\ [][ReplyNext]_vars

\* ------------------------------------------------------------ codec claims
Decoded == cpc = "decoded"
Untampered == tamper.op = "none"
SameSchemeKey == encScheme = decScheme /\ encKey = decKey

\* every ident of m converts to a text other than the delimiter
IdentsPlain(m) ==
    \A k \in 1..Len(m.idents.v) :
        ~m.idents.v[k].big /\ m.idents.v[k].data # DELIMITER

\* JSON.parse(JSON.stringify(v)) is deeply equal to v
JSONExact(v) == JSON_parse(JSON_stringify(v)) = Ret(v)

\* m has plain idents and JSON gives back its four objects
Survives(m) ==
    /\ IdentsPlain(m)
    /\ JSONExact(m.header) /\ JSONExact(m.parent_header)
    /\ JSONExact(m.metadata) /\ JSONExact(m.content)

\* C1 as stated: decoding the encoding of any Message, under the scheme and
\* key of the encoding, returns a Message deeply equal to it.
C1_RoundTripAny ==
    (Decoded /\ Untampered /\ SameSchemeKey) => result = Ret(msg)

\* C1 amended: decoding the encoding of a Message none of whose idents is
\* oversized or holds the delimiter, and whose header, parent_header, metadata
\* and content JSON gives back unchanged, under the scheme and key of the
\* encoding, returns a Message deeply equal to it, all six fields preserved.
C1_RoundTrip ==
    (Decoded /\ Untampered /\ SameSchemeKey /\ Survives(msg)) => result = Ret(msg)

C1_Witness ==
    /\ Decoded /\ Untampered /\ SameSchemeKey /\ Survives(msg)
    /\ encKey # ""
    /\ msg.idents.v # <<>> /\ msg.buffers.v # <<>>
    /\ msg.header # Obj(<<>>) /\ msg.parent_header # Obj(<<>>)
    /\ msg.metadata # msg.content
    /\ result = Ret(msg)

\* C2: the frames of a Message encoded with a non-empty key K1 decode to null
\* with any other non-empty key K2 and the same scheme.
C2_SignatureRejection ==
    (Decoded /\ Untampered /\ encScheme = decScheme
        /\ encKey # "" /\ decKey # "" /\ encKey # decKey)
    => result = Ret(Null)

C2_Witness ==
    /\ Decoded /\ Untampered /\ encScheme = decScheme
    /\ encKey = "K1" /\ decKey = "K2"
    /\ IdentsPlain(msg) /\ msg.header = H1
    /\ result = Ret(Null)

\* one of the four frames after the signature is a text that is not JSON
BadJSONSegment(fs) ==
    LET d == FirstDelimiter(fs)
    IN  /\ d > 0
        /\ Len(fs) >= d + 5
        /\ \E k \in 2..5 : ~fs[d + k].big /\ JSON_parse(fs[d + k].data).kind = "throw"

\* C5: when one of the four JSON segments is not valid JSON, Message._decode
\* returns null and does not throw, whatever the key.
C5_ParseFailureIsNull ==
    (Decoded /\ BadJSONSegment(frames)) => result = Ret(Null)

\* C6: a frame sequence in which no frame equals the delimiter, the empty
\* sequence included, decodes to null and raises nothing, for every scheme
\* and key.
C6_NoDelimiterIsNull ==
    (Decoded /\ FirstDelimiter(frames) = 0) => result = Ret(Null)

C6_Witness ==
    /\ Decoded /\ FirstDelimiter(frames) = 0
    /\ Len(frames) >= 5
    /\ \E k \in 1..Len(frames) : frames[k].big
    /\ decKey # ""
    /\ result = Ret(Null)

\* C7: a frame sequence whose delimiter is followed by fewer than 5 frames
\* decodes to null and raises nothing, for every key.
C7_TooFewFramesIsNull ==
    (Decoded /\ FirstDelimiter(frames) > 0
        /\ Len(frames) - FirstDelimiter(frames) < 5)
    => result = Ret(Null)

\* the frames of a well-formed message with one frame replaced by an oversized
\* one, decoded with the scheme and key of the encoding
OversizedPut ==
    /\ Decoded /\ SameSchemeKey
    /\ tamper.op = "replace" /\ tamper.frame = BigBuf
    /\ frames[tamper.pos] = BigBuf
    /\ Survives(msg)

SignatureValid(fs, scheme, key) ==
    LET d == FirstDelimiter(fs)
    IN  /\ d > 0
        /\ Len(fs) >= d + 5
        /\ ~fs[d + 1].big
        /\ fs[d + 1].data = HmacHex(DefaultScheme(scheme), key,
                                    [k \in 1..4 |-> fs[d + 1 + k].data])

\* the frames are idents, the delimiter, a signature the key accepts and four
\* JSON segments
Decodable(fs, scheme, key) ==
    LET d == FirstDelimiter(fs)
    IN  /\ d > 0
        /\ Len(fs) >= d + 5
        /\ \A k \in 1..d : ~fs[k].big
        /\ key # "" => SignatureValid(fs, scheme, key)
        /\ \A k \in 2..5 : ~fs[d + k].big /\ JSON_parse(fs[d + k].data).kind = "return"

Delivered == last.op = "deliver"

\* C3: on a Socket with a non-empty key a 'message' listener, registered with
\* on or once, is invoked only for a delivery that decodes and whose signature
\* frame is the HMAC of the four frames after it, and it is given the decoded
\* Message.
C3_OnlyValidDelivered ==
    (jmp_key # "" /\ Delivered /\ last.invoked # <<>>)
    => /\ SignatureValid(last.frames, jmp_scheme, jmp_key)
       /\ LET r == Message_decode(last.frames, jmp_scheme, jmp_key)
          IN  /\ r.kind = "return" /\ r.value # Null
              /\ \A k \in 1..Len(last.invoked) : last.invoked[k].message = r.value

C3_Witness ==
    /\ jmp_key # "" /\ Delivered
    /\ SignatureValid(last.frames, jmp_scheme, jmp_key)
    /\ Len(last.invoked) = 2
    /\ {last.invoked[k].wrapper.kind : k \in 1..2} = {"on", "once"}

\* C4: a delivery that fails to decode raises nothing to the transport and no
\* listener is invoked for it.
C4_DecodeFailureIsSilent ==
    (Delivered /\ events["message"] # <<>>
        /\ ~Decodable(last.frames, jmp_scheme, jmp_key))
    => /\ last.raised = NoError
       /\ last.invoked = <<>>

\* C9: the wrappers registered with the transport under 'message' are the
\* wrappers of the listener mapping, one entry for each and in the same order.
C9_LockStep ==
    /\ [k \in 1..Len(jmp_listeners) |-> jmp_listeners[k].wrapped] = events["message"]
    /\ \A j, k \in 1..Len(jmp_listeners) :
          j # k => jmp_listeners[j].wrapped # jmp_listeners[k].wrapped

C9_Witness ==
    /\ Delivered /\ last.raised = Throw(ListenerError)
    /\ Len(jmp_listeners) = 2
    /\ \E k \in 1..2 : jmp_listeners[k].wrapped.kind = "once"

\* C10: once every registered 'message' listener has been removed by its
\* callback with removeListener, the mapping is empty and the transport has no
\* 'message' handler; after removeAllListeners() the same holds, and the
\* transport has no handler at all.
C10_Bookkeeping ==
    /\ (\A l \in Listeners : registered[l] = 0)
       => jmp_listeners = <<>> /\ events["message"] = <<>>
    /\ (last.op = "removeAllListeners" /\ last.event = NoEvent)
       => jmp_listeners = <<>> /\ \A e \in Events : events[e] = <<>>

C10_Witness ==
    /\ last.op = "removeListener" /\ last.event = "message" /\ last.had
    /\ \A l \in Listeners : registered[l] = 0
    /\ jmp_listeners = <<>> /\ events["message"] = <<>>
    /\ events["close"] # <<>>

\* the handlers the transport holds for 'message'
Handlers(evs) == {evs["message"][k] : k \in 1..Len(evs["message"])}

\* the step is a delivery
Delivers == last'.op = "deliver" /\ last' # last

\* C11: a listener registered with once is invoked at most once, that is, the
\* once wrapper that invoked its listener in a delivery is registered no more
\* after it; it is given a Message; and the wrappers of on stay registered for
\* the later deliveries.
C11_OnceAtMostOnce ==
    [][Delivers =>
        /\ \A k \in 1..Len(last'.invoked) :
              /\ last'.invoked[k].message \notin {Null, Undefined}
              /\ last'.invoked[k].wrapper.kind = "once"
                 => last'.invoked[k].wrapper \notin Handlers(events')
        /\ \A w \in Handlers(events) : w.kind = "on" => w \in Handlers(events')]_vars

\* C12: when the listener of a once wrapper raises, the wrapper is in neither
\* the mapping nor the transport once the error has left the wrapper.
C12_FailedOnceIsRemoved ==
    (Delivered /\ last.raised = Throw(ListenerError)
        /\ last.invoked[Len(last.invoked)].wrapper.kind = "once")
    => LET w == last.invoked[Len(last.invoked)].wrapper
       IN  /\ w \notin Handlers(events)
           /\ \A k \in 1..Len(jmp_listeners) : jmp_listeners[k].wrapped # w

\* C13: a delivery that decodes to null leaves every listener registered, those
\* of once too.
C13_NullDecodeKeepsOnce ==
    [][(Delivers /\ Message_decode(last'.frames, jmp_scheme, jmp_key) = Ret(Null))
        => events' = events /\ jmp_listeners' = jmp_listeners]_vars

\* w is a wrapper made by on
IsOn(w) == w.kind = "on"

\* the wrappers that invoked their listener, in the order they did
InvokedWrappers(call) == [k \in 1..Len(call.invoked) |-> call.invoked[k].wrapper]

\* C18: in a delivery that decodes to a Message and in which no listener
\* raises, the listeners registered with on are invoked once for each
\* registration, in the order of registration, with the decoded Message, and
\* they stay registered for the next delivery.
C18_DeliveryOrder ==
    [][(Delivers /\ last'.raised = NoError
            /\ Message_decode(last'.frames, jmp_scheme, jmp_key).kind = "return"
            /\ Message_decode(last'.frames, jmp_scheme, jmp_key).value # Null)
        => /\ SelectSeq(InvokedWrappers(last'), IsOn) = SelectSeq(events["message"], IsOn)
           /\ \A k \in 1..Len(last'.invoked) :
                 Ret(last'.invoked[k].message)
                    = Message_decode(last'.frames, jmp_scheme, jmp_key)
           /\ SelectSeq(events'["message"], IsOn) = SelectSeq(events["message"], IsOn)]_vars

\* ------------------------------------------------------------ reply claims
\* respond was called, and it returned
RespondCalled == respondCall # NoRespond
Responded == RespondCalled /\ respondCall.outcome.kind = "return"

\* C14: respond on a request R with a header gives M2 with parent_header that
\* of R.header, the username and session of R.header, the given msg_type, the
\* idents of R, and a msg_id no call of uuid() gave before and other than that
\* of R.
C14_ReplyLinkage ==
    (RespondCalled /\ Truthy(respondCall.this.header))
    => /\ Responded
       /\ respondCall.outcome.value.parent_header = respondCall.this.header
       /\ \A key \in {"username", "session"} :
             Get(respondCall.outcome.value.header.v, key)
                = Get(respondCall.this.header.v, key)
       /\ Get(respondCall.outcome.value.header.v, "msg_type") = respondCall.messageType
       /\ respondCall.outcome.value.idents = respondCall.this.idents
       /\ Get(respondCall.outcome.value.header.v, "msg_id")
             # Get(respondCall.this.header.v, "msg_id")
       /\ \A k \in 0..(respondCall.n - 1) :
             Get(respondCall.outcome.value.header.v, "msg_id") # uuid(k)

C14_Witness ==
    /\ Responded
    /\ respondCall.n = 1
    /\ Get(respondCall.this.header.v, "msg_id") = uuid(0)
    /\ Get(respondCall.outcome.value.header.v, "username") = "u"
    /\ respondCall.this.idents.v # <<>>

\* C15 as stated: the version of the reply is protocolVersion whenever the
\* caller gives one, else that of the original header when it has one, else
\* the reply has no version.
C15_VersionAsStated ==
    Responded =>
        IF respondCall.protocolVersion # UndefinedValue
        THEN Get(respondCall.outcome.value.header.v, "version")
                = respondCall.protocolVersion
        ELSE IF "version" \in DOMAIN respondCall.this.header.v
        THEN Get(respondCall.outcome.value.header.v, "version")
                = respondCall.this.header.v["version"]
        ELSE "version" \notin DOMAIN respondCall.outcome.value.header.v

\* C15 amended: the version of the reply is protocolVersion whenever the caller
\* gives a non-empty one, else that of the original header when it has a
\* non-empty one, else the reply has no version.
C15_Version ==
    Responded =>
        IF TruthyValue(respondCall.protocolVersion)
        THEN Get(respondCall.outcome.value.header.v, "version")
                = respondCall.protocolVersion
        ELSE IF TruthyValue(Get(respondCall.this.header.v, "version"))
        THEN Get(respondCall.outcome.value.header.v, "version")
                = respondCall.this.header.v["version"]
        ELSE "version" \notin DOMAIN respondCall.outcome.value.header.v

C15_Witness ==
    /\ Responded
    /\ respondCall.protocolVersion = "5.1"
    /\ Get(respondCall.this.header.v, "version") = "5.0"
    /\ Get(respondCall.outcome.value.header.v, "version") = "5.1"

\* C16: a call of respond that returns called send of the socket once, with
\* the reply it returns; the content and metadata of the reply are empty
\* objects when the caller gave none.
C16_SendsOnceAndReturns ==
    Responded =>
        /\ respondCall.sent = <<[message |-> respondCall.outcome.value,
                                 flags |-> UndefinedValue]>>
        /\ respondCall.content = Undefined
              => respondCall.outcome.value.content = Obj(<<>>)
        /\ respondCall.metadata = Undefined
              => respondCall.outcome.value.metadata = Obj(<<>>)

C16_Witness ==
    /\ Responded
    /\ rpc = "served"
    /\ respondCall.content = Undefined /\ respondCall.metadata = Undefined
    /\ Len(respondCall.sent) = 1

\* what the listener of the server and of the client was given
AtServerOK ==
    /\ Len(atServer.invoked) = 1
    /\ atServer.raised = NoError
    /\ atServer.invoked[1].message.header = request.header
    /\ atServer.invoked[1].message.parent_header = request.parent_header
    /\ atServer.invoked[1].message.metadata = request.metadata
    /\ atServer.invoked[1].message.content = request.content
    /\ Len(atServer.invoked[1].message.buffers.v) = Len(request.buffers.v)

AtClientOK ==
    /\ Len(atClient.invoked) = 1
    /\ atClient.raised = NoError
    /\ atClient.invoked[1].message.parent_header = request.header
    /\ Get(atClient.invoked[1].message.header.v, "msg_type") = respondCall.messageType
    /\ atClient.invoked[1].message.content = Or(respondCall.content, Obj(<<>>))

\* C17 as stated: any Message the client sends reaches the listener of the
\* server with its header, parent_header, metadata and content and as many
\* buffers, and the reply of the server reaches the listener of the client
\* with the header of the request for parent_header, the given msg_type and
\* the given content.
C17_EndToEndAny ==
    /\ rpc \in {"served", "replied"} => AtServerOK
    /\ rpc = "served" => atServer.transport # <<>>
    /\ rpc = "replied" => AtClientOK

\* C17 amended: the same for a Message none of whose idents is oversized or
\* holds the delimiter and whose four objects JSON gives back unchanged.
C17_EndToEnd ==
    Survives(request) => C17_EndToEndAny

C17_Witness ==
    /\ rpc = "replied" /\ Survives(request)
    /\ jmp_key # ""
    /\ request.header = HFull /\ request.buffers.v # <<>> /\ request.idents.v # <<>>
    /\ respondCall.content # Undefined
    /\ AtServerOK /\ AtClientOK

\* C19: a call of send makes one call of the send of the transport, with the
\* flags it was given: with the encoding of the Message under the scheme and
\* key of the socket when given a Message, with what it was given otherwise;
\* so does the send of the reply by respond.
C19_SendOnce ==
    /\ sendCall # NoSend =>
          sendCall.transport =
            <<[payload |-> IF instanceofMessage(sendCall.message)
                           THEN Arr(Message_encode(sendCall.message, jmp_scheme, jmp_key))
                           ELSE sendCall.message,
               flags |-> sendCall.flags]>>
    /\ (rpc \in {"served", "replied"} /\ atServer.invoked # <<>>) =>
          atServer.transport =
            <<[payload |-> Arr(Message_encode(respondCall.outcome.value,
                                              jmp_scheme, jmp_key)),
               flags |-> UndefinedValue]>>

C19_Witness ==
    /\ sendCall.message = request
    /\ sendCall.flags = "ZMQ_SNDMORE"
    /\ jmp_key # ""
    /\ request.buffers.v # <<>>
    /\ Len(sendCall.transport) = 1
    /\ sendCall.transport[1].payload.v[Len(request.idents.v) + 2].data # <<>>

\* C20 as stated: with an empty key for encoding and decoding, decoding the
\* encoding of any Message returns a Message, never null and never an error.
C20_UnsignedAny ==
    (Decoded /\ Untampered /\ encScheme = decScheme /\ encKey = "" /\ decKey = "")
    => result.kind = "return" /\ result.value # Null

\* C20 amended: the same for a Message none of whose idents is oversized or
\* holds the delimiter.
C20_Unsigned ==
    (Decoded /\ Untampered /\ encScheme = decScheme /\ encKey = "" /\ decKey = ""
        /\ IdentsPlain(msg))
    => result.kind = "return" /\ result.value # Null

C20_Witness ==
    /\ Decoded /\ Untampered /\ encScheme = decScheme /\ encKey = "" /\ decKey = ""
    /\ IdentsPlain(msg) /\ ~Survives(msg)
    /\ msg.idents.v # <<>> /\ msg.buffers.v # <<>>
    /\ result.kind = "return" /\ result.value # Null /\ result.value # msg

C22_EncodeLayout ==
    cpc = "encoded" =>
        LET n == Len(msg.idents.v)
            b == Len(msg.buffers.v)
            json == <<JSON_stringify(msg.header), JSON_stringify(msg.parent_header),
                      JSON_stringify(msg.metadata), JSON_stringify(msg.content)>>
        IN  /\ Len(frames) = n + 6 + b
            /\ \A k \in 1..n : frames[k] = msg.idents.v[k]
            /\ frames[n + 1] = Str(DELIMITER)
            /\ frames[n + 2] = Str(IF encKey = "" THEN <<>>
                                   ELSE HmacHex(DefaultScheme(encScheme), encKey, json))
            /\ \A k \in 1..4 : frames[n + 2 + k] = Str(json[k])
            /\ \A k \in 1..b : frames[n + 6 + k] = msg.buffers.v[k]

C22_Witness ==
    /\ cpc = "encoded"
    /\ encKey # "" /\ encScheme # ""
    /\ msg.idents.v # <<>> /\ msg.buffers.v # <<>>
    /\ msg.metadata = M1 /\ msg.content = C1v
    /\ Len(frames) = 8
    /\ frames[3].data # <<>>

\* m has its four objects and its two arrays
Populated(m) ==
    /\ \A f \in {"header", "parent_header", "metadata", "content"} : m[f].t = "object"
    /\ \A f \in {"idents", "buffers"} : m[f].t = "array"

\* the text of the frame k places after the first delimiter
Segment(fs, k) == fs[FirstDelimiter(fs) + k].data

\* C23: a Message made by the constructor, returned by Message._decode or
\* returned by respond has header, parent_header, metadata and content that
\* are objects and idents and buffers that are arrays; what Message._decode
\* returns is null or such a Message, with an empty object where the frame
\* held null and the very array of buffers; the reply of respond has no
\* buffers.
C23_FullyPopulated ==
    /\ Populated(msg)
    /\ (cpc \in {"decoded", "responded"} /\ result.kind = "return" /\ result.value # Null)
       => /\ Populated(result.value)
          /\ DOMAIN result.value = DOMAIN msg
          /\ \A k \in 2..5 :
                Segment(frames, k) = <<"null">>
                => result.value[<<"header", "parent_header", "metadata", "content">>[k - 1]]
                      = Obj(<<>>)
    /\ (cpc = "responded" /\ respondCall.outcome.kind = "return")
       => /\ Populated(respondCall.outcome.value)
          /\ respondCall.outcome.value.buffers = Arr(<<>>)
          /\ respondCall.content = Undefined
                => respondCall.outcome.value.content = Obj(<<>>)

C23_Witness ==
    /\ cpc = "responded"
    /\ msg.header = Obj(<<>>) /\ msg.buffers # Arr(<<>>)
    /\ tamper.op = "replace" /\ tamper.resign
    /\ Segment(frames, 4) = <<"null">>
    /\ result.value.metadata = Obj(<<>>)
    /\ respondCall.content = Undefined
    /\ respondCall.outcome.kind = "return"
    /\ respondCall.outcome.value.buffers = Arr(<<>>)

\* what `new Message` makes of the JSON text of a frame: an empty object of null
FieldOf(text) ==
    IF JSON_parse(text) = Ret(Null) THEN Ret(Obj(<<>>)) ELSE JSON_parse(text)

\* C24: when Message._decode returns a Message, with d the place of the first
\* frame holding the delimiter, idents are the frames before d in order,
\* header, parent_header, metadata and content are the JSON values of the
\* frames 2, 3, 4 and 5 places after d, and buffers are the frames from 6
\* places after d on, in order; a later frame holding the delimiter is an
\* ordinary frame.
C24_PositionalMapping ==
    (Decoded /\ result.kind = "return" /\ result.value # Null)
    => LET d == FirstDelimiter(frames)
       IN  /\ d > 0
           /\ Len(frames) >= d + 5
           /\ result.value.idents = Arr(SubSeq(frames, 1, d - 1))
           /\ Ret(result.value.header) = FieldOf(Segment(frames, 2))
           /\ Ret(result.value.parent_header) = FieldOf(Segment(frames, 3))
           /\ Ret(result.value.metadata) = FieldOf(Segment(frames, 4))
           /\ Ret(result.value.content) = FieldOf(Segment(frames, 5))
           /\ result.value.buffers = Arr(SubSeq(frames, d + 6, Len(frames)))

C24_Witness ==
    /\ Decoded /\ result.kind = "return" /\ result.value # Null
    /\ tamper.op = "unshift"
    /\ decKey # ""
    /\ FirstDelimiter(frames) = 3
    /\ Len(result.value.idents.v) = 2
    /\ result.value.buffers = Arr(<<Str(DELIMITER)>>)
    /\ result.value.metadata = M1 /\ result.value.content = C1v

\* C25: Message._decode turns into null only the failure to convert an
\* oversized frame to text; any other error raised while decoding reaches the
\* caller as it was raised.
C25_OnlyOversizedIsSwallowed ==
    (Decoded /\ Message_decodeNoCatch(frames, decScheme, decKey).kind = "throw")
    => IF Message_decodeNoCatch(frames, decScheme, decKey) = Throw(ToStringFailed)
       THEN result = Ret(Null)
       ELSE result = Message_decodeNoCatch(frames, decScheme, decKey)

\* --------------------------------------------------- socket claims, more
\* what the transport holds once its own on, once or removeListener was
\* called with the listener as the application gave it
Delegated(op, event, listener) ==
    IF op = "once" THEN p_on(This, event, OnceWrapper(listener))._events
    ELSE IF op = "removeListener" THEN p_removeListener(This, event, Raw(listener))._events
    ELSE p_on(This, event, Raw(listener))._events

\* C26: on, addListener, once and removeListener for an event other than
\* 'message' do what the same call on the transport does with the listener as
\* given: no closure of the socket is made, the mapping stays as it was and
\* so do the handlers of 'message'.
C26_OtherEventsDelegate ==
    [][(last'.op \in {"on", "addListener", "once", "removeListener"}
            /\ last'.event # "message")
        => /\ jmp_listeners' = jmp_listeners
           /\ events'["message"] = events["message"]
           /\ events' = Delegated(last'.op, last'.event, last'.listener)
           /\ \A k \in 1..Len(events'[last'.event]) :
                 events'[last'.event][k].kind \in {"raw", "onceWrapper"}]_vars

C26_Witness ==
    /\ last.op = "once" /\ last.event = "close" /\ last.listener = "L1"
    /\ Len(jmp_listeners) = 1 /\ jmp_listeners[1].unwrapped = "L1"
    /\ events["close"] = <<OnceWrapper("L1")>>
    /\ Len(events["message"]) = 1

\* the callback has an entry in the mapping
Mapped(listener) ==
    \E k \in 1..Len(jmp_listeners) : jmp_listeners[k].unwrapped = listener

\* C27: removeListener('message', L) for a callback L with no entry in the
\* mapping leaves the mapping and every handler of the transport as they
\* were.
C27_RemoveUnknownIsNoOp ==
    [][(last'.op = "removeListener" /\ last'.event = "message"
            /\ ~Mapped(last'.listener))
        => jmp_listeners' = jmp_listeners /\ events' = events]_vars

C27_Witness ==
    /\ last.op = "removeListener" /\ last.event = "message" /\ ~last.had
    /\ ~Mapped(last.listener)
    /\ Len(jmp_listeners) = 2 /\ Len(events["message"]) = 2
    /\ \E k \in 1..2 : events["message"][k].kind = "once"

\* C28: removeAllListeners() and removeAllListeners('message') leave the
\* mapping empty and the transport without a handler of 'message';
\* removeAllListeners of another event leaves the mapping and the handlers of
\* 'message' as they were.
C28_RemoveAll ==
    [][last'.op = "removeAllListeners"
        => IF last'.event \in {NoEvent, "message"}
           THEN jmp_listeners' = <<>> /\ events'["message"] = <<>>
           ELSE /\ jmp_listeners' = jmp_listeners
                /\ events'["message"] = events["message"]]_vars

C28_Witness ==
    /\ last.op = "removeAllListeners" /\ last.event = "close"
    /\ events["close"] = <<>>
    /\ Len(jmp_listeners) = 2 /\ Len(events["message"]) = 2
    /\ \E k \in 1..2 : events["message"][k].kind = "once"

C30_RespondWithoutHeader ==
    (RespondCalled /\ respondCall.this.header \in {Undefined, Null})
    => /\ respondCall.outcome.kind = "throw"
       /\ respondCall.outcome.error.name = "TypeError"
       /\ respondCall.sent = <<>>
       /\ atServer.transport = <<>> /\ atClient.transport = <<>>

C30_Witness ==
    /\ RespondCalled
    /\ respondCall.this.header = Null
    /\ respondCall.this.idents.v # <<>>
    /\ respondCall.this.content = C1v
    /\ respondCall.outcome = Throw(PropertyOfNull)
    /\ respondCall.sent = <<>>
    /\ rpc = "failed"

\* ----------------------------------------------------- signature claims
\* the frames as _encode gave them, before a peer touched them
Original == Message_encode(msg, encScheme, encKey)

\* the frames differ from the original ones in the frame after the first
\* delimiter alone
SignatureReplaced ==
    /\ tamper.op = "replace"
    /\ tamper.pos = FirstDelimiter(Original) + 1
    /\ FirstDelimiter(Original) > 0

\* C31: under an empty key two frame sequences that differ in the signature
\* frame alone decode to the same outcome: the signature frame is not read.
C31_EmptyKeySkipsSignature ==
    (Decoded /\ decKey = "" /\ SignatureReplaced)
    => result = Message_decode(Original, decScheme, decKey)

C31_Witness ==
    /\ Decoded /\ decKey = "" /\ SignatureReplaced
    /\ encKey # ""
    /\ tamper.frame = BigBuf /\ ~tamper.resign
    /\ msg.idents.v # <<>>
    /\ result.kind = "return" /\ result.value # Null
    /\ result.value.header = H1

\* --------------------------------------------- registration claims, more
\* the transport holds, for one callback, a wrapper of on and after it a
\* wrapper of once, and nothing else
OnThenOnce ==
    /\ Len(events["message"]) = 2
    /\ events["message"][1].kind = "on" /\ events["message"][2].kind = "once"
    /\ events["message"][1].listener = events["message"][2].listener

\* C32: with on('message', L) and then once('message', L) registered, a
\* delivery that decodes and in which L does not raise leaves the
\* registration of on, in the mapping and in the transport, and takes that of
\* once away.
C32_OnceRemovesItself ==
    [][(Delivers /\ OnThenOnce /\ last'.invoked # <<>> /\ last'.raised = NoError)
        => /\ events'["message"] = <<events["message"][1]>>
           /\ jmp_listeners' = <<jmp_listeners[1]>>]_vars

\* C33: under a non-empty key, frames that hold the delimiter and five frames
\* or more after it, the first of which is not the HMAC of the next four,
\* decode to null, whether the four segments are JSON or not: no parse error
\* is raised.
C33_SignatureBeforeParse ==
    (Decoded /\ decKey # ""
        /\ FirstDelimiter(frames) > 0
        /\ Len(frames) >= FirstDelimiter(frames) + 5
        /\ ~SignatureValid(frames, decScheme, decKey))
    => result = Ret(Null)

C33_Witness ==
    /\ Decoded /\ decKey # "" /\ encKey = decKey /\ encScheme = decScheme
    /\ BadJSONSegment(frames)
    /\ ~SignatureValid(frames, decScheme, decKey)
    /\ tamper.op = "replace" /\ ~tamper.resign
    /\ tamper.pos = FirstDelimiter(frames) + 2
    /\ result = Ret(Null)

\* a peer replaced an ident, or replaced, removed or added a trailing buffer
IdentReplaced ==
    tamper.op = "replace" /\ tamper.pos < FirstDelimiter(Original)
BufferTouched ==
    \/ tamper.op \in {"replace", "drop"} /\ tamper.pos > FirstDelimiter(Original) + 5
    \/ tamper.op = "push"

\* the result is a Message with the four objects of the Message other
SameObjects(r, other) ==
    /\ r.kind = "return" /\ r.value # Null
    /\ r.value.header = other.header
    /\ r.value.parent_header = other.parent_header
    /\ r.value.metadata = other.metadata
    /\ r.value.content = other.content

\* the original frames decode to a Message under the key of the decoding
OriginalDecodes ==
    /\ Message_decode(Original, decScheme, decKey).kind = "return"
    /\ Message_decode(Original, decScheme, decKey).value # Null

\* C34 as stated: under a non-empty key, frames that decode still decode, to
\* the same header, parent_header, metadata and content, once an ident is
\* replaced by any frame other than the delimiter or a trailing buffer is
\* replaced, removed or added.
C34_UnsignedFramesAny ==
    (Decoded /\ decKey # "" /\ OriginalDecodes /\ (IdentReplaced \/ BufferTouched))
    => SameObjects(result, Message_decode(Original, decScheme, decKey).value)

\* C34 amended: the same when the frame that replaces an ident is not
\* oversized; a buffer may be replaced by, or be, any frame.
C34_UnsignedFrames ==
    (Decoded /\ decKey # "" /\ OriginalDecodes
        /\ \/ IdentReplaced /\ ~tamper.frame.big
           \/ BufferTouched)
    => SameObjects(result, Message_decode(Original, decScheme, decKey).value)

C34_Witness ==
    /\ Decoded /\ decKey # "" /\ OriginalDecodes
    /\ tamper.op = "push" /\ tamper.frame = BigBuf
    /\ msg.idents.v # <<>> /\ msg.buffers.v # <<>>
    /\ msg.header = H1 /\ msg.content = C1v
    /\ SameObjects(result, msg)
    /\ Len(result.value.buffers.v) = 2

\* the places of the callback in the mapping
EntriesOf(listener) ==
    {k \in 1..Len(jmp_listeners) : jmp_listeners[k].unwrapped = listener}

\* the earliest of them
EarliestOf(listener) ==
    CHOOSE k \in EntriesOf(listener) : \A j \in EntriesOf(listener) : k <= j

\* the calls of the callback in a delivery
CallsOf(call, listener) ==
    Cardinality({k \in 1..Len(call.invoked) : call.invoked[k].listener = listener})

\* the wrappers of on the transport holds for the callback
OnWrappersOf(listener) ==
    Cardinality({k \in 1..Len(events["message"]) :
                    /\ events["message"][k].kind = "on"
                    /\ events["message"][k].listener = listener})

\* C35: removeListener('message', L), L registered more than once with on,
\* takes away the earliest entry of L in the mapping and the wrapper of that
\* entry in the transport, and nothing else; and in a delivery that decodes,
\* on a socket that holds wrappers of on alone, L is called once for each
\* wrapper of it that is left.
C35_RemovesExactlyOne ==
    [][/\ (last'.op = "removeListener" /\ last'.event = "message"
            /\ Cardinality(EntriesOf(last'.listener)) > 1
            /\ \A k \in EntriesOf(last'.listener) : jmp_listeners[k].wrapped.kind = "on")
          => /\ jmp_listeners' = RemoveAt(jmp_listeners, EarliestOf(last'.listener))
             /\ events'["message"] =
                    SelectSeq(events["message"],
                              LAMBDA w : w # jmp_listeners[EarliestOf(last'.listener)].wrapped)
             /\ Len(events'["message"]) = Len(events["message"]) - 1
       /\ (Delivers /\ last'.raised = NoError
            /\ Message_decode(last'.frames, jmp_scheme, jmp_key).kind = "return"
            /\ Message_decode(last'.frames, jmp_scheme, jmp_key).value # Null
            /\ \A k \in 1..Len(events["message"]) : events["message"][k].kind = "on")
          => \A l \in Listeners : CallsOf(last', l) = OnWrappersOf(l)]_vars

C35_Witness ==
    /\ last.op = "removeListener" /\ last.event = "message" /\ last.had
    /\ Len(jmp_listeners) = 1
    /\ jmp_listeners[1].unwrapped = last.listener
    /\ jmp_listeners[1].wrapped = Wrapped(2, "on", last.listener)
    /\ events["message"] = <<Wrapped(2, "on", last.listener)>>

\* C36: the reply respond returns has no buffers, whatever the buffers of the
\* Message it answers, and what the socket hands to the transport for it is
\* the idents of that Message and six frames.
C36_ReplyHasNoBuffers ==
    /\ Responded
       => /\ respondCall.outcome.value.buffers = Arr(<<>>)
          /\ Len(Message_encode(respondCall.outcome.value, jmp_scheme, jmp_key))
                = Len(respondCall.this.idents.v) + 6
    /\ (rpc \in {"served", "replied"} /\ atServer.transport # <<>>)
       => Len(atServer.transport[1].payload.v) = Len(respondCall.this.idents.v) + 6

C36_Witness ==
    /\ Responded /\ rpc = "served"
    /\ respondCall.this.buffers.v # <<>>
    /\ Len(respondCall.this.idents.v) = 2
    /\ respondCall.outcome.value.buffers = Arr(<<>>)
    /\ Len(atServer.transport[1].payload.v) = 8

\* ------------------------------------------------------------ legacy claim
\* C37: on the legacy socket, after removeAllListeners() or
\* removeAllListeners('message') the mapping is empty and the transport has no
\* handler of 'message'.
C37_LegacyRemoveAll ==
    (last.op = "removeAllListeners" /\ last.event \in {NoEvent, "message"})
    => /\ jmp_listeners = <<>>
       /\ events["message"] = <<>>

====
